---- MODULE Spec2Model ----
(***************************************************************************)
(* Model of chatgpt_converter.py: the batch processor                      *)
(* (process_conversations), the filename allocator (generate_filename,     *)
(* clean_filename), the duplicate-detection seed                           *)
(* (get_existing_conversation_ids), the tree walker (extract_messages),    *)
(* the renderer (convert_conversation_to_markdown) and main.               *)
(*                                                                         *)
(* Text is a sequence of tokens.  A token is a TLA+ string standing for    *)
(* one character ("T", "_", " ", "*") or for a literal run of characters   *)
(* none of which is an underscore (".md", "Untitled", "x99").              *)
(***************************************************************************)
EXTENDS Integers, Sequences, FiniteSets, TLC

\* ------------------------------------------------------------------------
\* Bounds of the model
\* ------------------------------------------------------------------------
MaxConvs == 3
MaxNodes == 2

\* the longest list of existing filenames passed to generate_filename
MaxExisting == 3

\* ------------------------------------------------------------------------
\* Text helpers
\* ------------------------------------------------------------------------

\* text[:100] in clean_filename
MaxNameLen == 100

\* number of characters a token stands for
TokLen(t) ==
  CASE t = "x99" -> 99
    [] t = "Untitled" -> 8
    [] t = "Conversation" -> 12
    [] t = ".md" -> 3
    [] t = " (" -> 2
    [] OTHER -> 1

\* \s of the regular expressions, and what str.strip() removes
IsSpace(t) == t \in {" ", "\t", "\n"}

\* the characters of [<>:"/\\|?*]
IsInvalidFilenameChar(t) == t \in {"<", ">", ":", "/", "|", "?", "*"}

\* the characters [^\w\s.-] does not remove: \w (letters, digits, underscore),
\* \s, '.', '-'
IsKeptChar(t) ==
  \/ IsSpace(t)
  \/ t \in {".", "-", "_"}
  \/ t \in {"T", "U", "a", "b", "c", "x", "y", "h", "i", "x99", "Untitled",
            "Conversation", "0", "1", "2", "3", "4", "5", "6", "7", "8", "9"}

\* re.sub(r'[<>:"/\\|?*]', '', text)
RECURSIVE RemoveInvalid(_)
RemoveInvalid(s) ==
  IF s = <<>> THEN <<>>
  ELSE IF IsInvalidFilenameChar(Head(s)) THEN RemoveInvalid(Tail(s))
       ELSE <<Head(s)>> \o RemoveInvalid(Tail(s))

\* re.sub(r'[^\w\s.-]', '', text)
RECURSIVE KeepSafe(_)
KeepSafe(s) ==
  IF s = <<>> THEN <<>>
  ELSE IF IsKeptChar(Head(s)) THEN <<Head(s)>> \o KeepSafe(Tail(s))
       ELSE KeepSafe(Tail(s))

\* re.sub(r'\s+', ' ', text)
RECURSIVE CollapseSpaces(_)
CollapseSpaces(s) ==
  IF s = <<>> THEN <<>>
  ELSE IF IsSpace(Head(s))
       THEN IF Tail(s) # <<>> /\ IsSpace(Head(Tail(s)))
            THEN CollapseSpaces(Tail(s))
            ELSE <<" ">> \o CollapseSpaces(Tail(s))
       ELSE <<Head(s)>> \o CollapseSpaces(Tail(s))

RECURSIVE LStrip(_)
LStrip(s) ==
  IF s # <<>> /\ IsSpace(Head(s)) THEN LStrip(Tail(s)) ELSE s

RECURSIVE RStrip(_)
RStrip(s) ==
  IF s # <<>> /\ IsSpace(s[Len(s)]) THEN RStrip(SubSeq(s, 1, Len(s) - 1)) ELSE s

\* str.strip()
Strip(s) == RStrip(LStrip(s))

\* text[:n]: the longest prefix of at most n characters
RECURSIVE Truncate(_, _)
Truncate(s, n) ==
  IF s = <<>> \/ TokLen(Head(s)) > n THEN <<>>
  ELSE <<Head(s)>> \o Truncate(Tail(s), n - TokLen(Head(s)))

\* str(counter): the decimal digits of a natural number
RECURSIVE Decimal(_)
Decimal(n) ==
  IF n < 10 THEN <<ToString(n)>> ELSE Decimal(n \div 10) \o <<ToString(n % 10)>>

\* x in list
InSeq(x, s) == \E k \in 1..Len(s) : s[k] = x

\* ------------------------------------------------------------------------
\* clean_filename, generate_filename
\* ------------------------------------------------------------------------

clean_filename(text) ==
  LET t1 == RemoveInvalid(text)
      t2 == KeepSafe(t1)
      t3 == CollapseSpaces(t2)
      t4 == Strip(t3)
  IN Truncate(t4, MaxNameLen)

\* conversation.get('title', 'Untitled Conversation')
TitleOrDefault(conv) ==
  IF conv.titlek = "absent" THEN <<"Untitled", " ", "Conversation">> ELSE conv.title

\* variant: an empty base is kept
BaseFilename_noFallback(conv) == clean_filename(TitleOrDefault(conv))

\* base_filename of generate_filename
BaseFilename(conv) ==
  LET base == clean_filename(TitleOrDefault(conv))
  IN IF base = <<>> THEN <<"Conversation">> ELSE base

\* f"{base_filename} ({counter}).md"
Suffixed(base, counter) == base \o <<" (">> \o Decimal(counter) \o <<")", ".md">>

\* the while loop of generate_filename, entered with the candidate filename
RECURSIVE NextFree(_, _, _, _)
NextFree(base, filename, counter, existing_filenames) ==
  IF InSeq(filename, existing_filenames)
  THEN NextFree(base, Suffixed(base, counter), counter + 1, existing_filenames)
  ELSE filename

\* variant: the candidate is returned without looking at existing_filenames
generate_filename_unchecked(conv, existing_filenames) ==
  BaseFilename(conv) \o <<".md">>

\* variant: the counter of the suffix starts at 1
generate_filename_fromOne(conv, existing_filenames) ==
  LET base == BaseFilename(conv)
  IN NextFree(base, base \o <<".md">>, 1, existing_filenames)

generate_filename(conv, existing_filenames) ==
  LET base == BaseFilename(conv)
  IN NextFree(base, base \o <<".md">>, 2, existing_filenames)

\* re.sub on a title that is not a string raises TypeError
NamingFails(conv) == conv.titlek = "null"

\* ------------------------------------------------------------------------
\* get_existing_conversation_ids
\* ------------------------------------------------------------------------

\* output_dir.glob('*.md')
IsMdFile(name) == name # <<>> /\ name[Len(name)] = ".md"

\* file_path.stem
Stem(name) == SubSeq(name, 1, Len(name) - 1)

\* number of parts of filename.split('_')
NumParts(s) == 1 + Cardinality({k \in 1..Len(s) : s[k] = "_"})

\* parts[-1] of filename.split('_')
RECURSIVE LastPart(_)
LastPart(s) ==
  IF s = <<>> \/ s[Len(s)] = "_" THEN <<>>
  ELSE LastPart(SubSeq(s, 1, Len(s) - 1)) \o <<s[Len(s)]>>

get_existing_conversation_ids(names) ==
  {LastPart(Stem(n)) : n \in {m \in names : IsMdFile(m) /\ NumParts(Stem(m)) >= 3}}

\* ------------------------------------------------------------------------
\* extract_messages
\*
\* A mapping is the sequence of its (id, node) items in iteration order.  A
\* node is a record: hasMsg (msg_data.get('message') is truthy), role (the
\* author role, "" when the author carries none), ck (the content is
\* "absent", a dict with "parts", or a "str"), parts (the parts list, each
\* part a string or not), text (the content string), parentNull
\* (msg_data.get('parent') is None) and children.
\* ------------------------------------------------------------------------

\* the id that is never a key of a mapping
MissingId == "Z"

NodeIdSeq == <<"A", "B", "C", "D">>

\* current_id = None (None and "" are both falsy in `while current_id`)
NoId == ""

\* mapping.get(current_id, {})
EmptyNode ==
  [hasMsg |-> FALSE, role |-> "", ck |-> "absent", parts |-> <<>>,
   text |-> <<>>, parentNull |-> TRUE, children |-> <<>>]

HasKey(mapping, id) == \E k \in 1..Len(mapping) : mapping[k].id = id

GetNode(mapping, id) ==
  IF HasKey(mapping, id)
  THEN mapping[CHOOSE k \in 1..Len(mapping) : mapping[k].id = id].node
  ELSE EmptyNode

\* message.get('content') is truthy
HasContent(node) ==
  \/ node.ck = "parts"
  \/ node.ck = "str" /\ node.text # <<>>

\* first loop of the root search: parent is None and a message is present
IsRootCandidate(node) == node.parentNull /\ node.hasMsg

\* fallback loop: a message with content
IsFallbackCandidate(node) == node.hasMsg /\ HasContent(node)

\* the id of the first item of the mapping whose node satisfies the test, or
\* NoId
RECURSIVE FirstRoot(_)
FirstRoot(mapping) ==
  IF mapping = <<>> THEN NoId
  ELSE IF IsRootCandidate(Head(mapping).node) THEN Head(mapping).id
       ELSE FirstRoot(Tail(mapping))

RECURSIVE FirstFallback(_)
FirstFallback(mapping) ==
  IF mapping = <<>> THEN NoId
  ELSE IF IsFallbackCandidate(Head(mapping).node) THEN Head(mapping).id
       ELSE FirstFallback(Tail(mapping))

\* variant: the fallback search comes first
FindRoot_fallbackFirst(mapping) ==
  IF FirstFallback(mapping) # NoId THEN FirstFallback(mapping) ELSE FirstRoot(mapping)

\* root_id after both searches
FindRoot(mapping) ==
  IF FirstRoot(mapping) # NoId THEN FirstRoot(mapping) ELSE FirstFallback(mapping)

\* variant: a part that is not a string leaves a placeholder
RECURSIVE JoinStringParts_placeholder(_)
JoinStringParts_placeholder(parts) ==
  IF parts = <<>> THEN <<>>
  ELSE (IF Head(parts).isStr THEN Head(parts).text ELSE <<"{}">>)
       \o JoinStringParts_placeholder(Tail(parts))

\* ''.join(part for part in parts if isinstance(part, str))
RECURSIVE JoinStringParts(_)
JoinStringParts(parts) ==
  IF parts = <<>> THEN <<>>
  ELSE (IF Head(parts).isStr THEN Head(parts).text ELSE <<>>)
       \o JoinStringParts(Tail(parts))

\* text_content of one node
TextContent(node) ==
  IF node.ck = "parts" THEN JoinStringParts(node.parts)
  ELSE IF node.ck = "str" THEN node.text
  ELSE <<>>

\* variant: the role of the author is not read
AuthorRole_unknown(node) == "unknown"

\* message.get('author', {}).get('role', 'unknown')
AuthorRole(node) == IF node.role = "" THEN "unknown" ELSE node.role

\* state of the traversal before its first iteration
WalkInit(root_id) ==
  [current_id |-> root_id, visited |-> {}, messages |-> <<>>, iters |-> 0]

\* variant: the visited set is not consulted
WalkCond_noVisited(st) == st.current_id # NoId

\* the condition of the while loop
WalkCond(st) == st.current_id # NoId /\ st.current_id \notin st.visited

\* variant: the last child is followed
WalkStep_lastChild(mapping, st) ==
  LET msg_data == GetNode(mapping, st.current_id)
      text_content == TextContent(msg_data)
      emits == msg_data.hasMsg /\ HasContent(msg_data) /\ Strip(text_content) # <<>>
  IN [current_id |-> IF msg_data.children # <<>>
                     THEN msg_data.children[Len(msg_data.children)] ELSE NoId,
      visited |-> st.visited \cup {st.current_id},
      messages |-> IF emits
                   THEN Append(st.messages,
                               [author |-> AuthorRole(msg_data),
                                content |-> Strip(text_content)])
                   ELSE st.messages,
      iters |-> st.iters + 1]

\* variant: a text is not tested for being blank
WalkStep_keepsBlank(mapping, st) ==
  LET msg_data == GetNode(mapping, st.current_id)
      text_content == TextContent(msg_data)
      emits == msg_data.hasMsg /\ HasContent(msg_data)
  IN [current_id |-> IF msg_data.children # <<>> THEN msg_data.children[1] ELSE NoId,
      visited |-> st.visited \cup {st.current_id},
      messages |-> IF emits
                   THEN Append(st.messages,
                               [author |-> AuthorRole(msg_data),
                                content |-> Strip(text_content)])
                   ELSE st.messages,
      iters |-> st.iters + 1]

\* one iteration of the while loop (iters counts the iterations)
WalkStep(mapping, st) ==
  LET msg_data == GetNode(mapping, st.current_id)
      text_content == TextContent(msg_data)
      emits == msg_data.hasMsg /\ HasContent(msg_data) /\ Strip(text_content) # <<>>
  IN [current_id |-> IF msg_data.children # <<>> THEN msg_data.children[1] ELSE NoId,
      visited |-> st.visited \cup {st.current_id},
      messages |-> IF emits
                   THEN Append(st.messages,
                               [author |-> AuthorRole(msg_data),
                                content |-> Strip(text_content)])
                   ELSE st.messages,
      iters |-> st.iters + 1]

RECURSIVE WalkFrom(_, _)
WalkFrom(mapping, st) ==
  IF WalkCond(st) THEN WalkFrom(mapping, WalkStep(mapping, st)) ELSE st.messages

extract_messages(mapping) ==
  IF FindRoot(mapping) = NoId THEN <<>>
  ELSE WalkFrom(mapping, WalkInit(FindRoot(mapping)))

\* ------------------------------------------------------------------------
\* format_as_blockquote, clean_citation_artifacts,
\* convert_conversation_to_markdown
\*
\* A document is a sequence of tokens in which "\n" ends a line.  "PUA"
\* stands for one private-use character (U+E000..U+F8FF), "turn0search0" for
\* one token of the shape turn<N>(search|news)<N>, "cite" for that word.
\* ------------------------------------------------------------------------

\* '\n'.join(lines)
RECURSIVE JoinLines(_)
JoinLines(lines) ==
  IF lines = <<>> THEN <<>>
  ELSE IF Len(lines) = 1 THEN Head(lines)
       ELSE Head(lines) \o <<"\n">> \o JoinLines(Tail(lines))

\* content.split('\n')
RECURSIVE SplitLines(_)
SplitLines(s) ==
  IF \A k \in 1..Len(s) : s[k] # "\n" THEN <<s>>
  ELSE LET k == CHOOSE j \in 1..Len(s) :
                  s[j] = "\n" /\ \A m \in 1..(j - 1) : s[m] # "\n"
       IN <<SubSeq(s, 1, k - 1)>> \o SplitLines(SubSeq(s, k + 1, Len(s)))

\* '>' if line.strip() == '' else f'> {line}'
QuoteLine(line) == IF Strip(line) = <<>> THEN <<">">> ELSE <<"> ">> \o line

RECURSIVE QuoteLines(_)
QuoteLines(lines) ==
  IF lines = <<>> THEN <<>> ELSE <<QuoteLine(Head(lines))>> \o QuoteLines(Tail(lines))

format_as_blockquote(content) ==
  IF content = <<>> THEN <<>> ELSE JoinLines(QuoteLines(SplitLines(content)))

IsPUA(t) == t = "PUA"

IsTurnToken(t) == t \in {"turn0search0", "turn0news1"}

IsCiteWord(t) == t \in {"cite", "navlist"}

\* number of leading private-use characters
RECURSIVE PUARun(_)
PUARun(s) == IF s # <<>> /\ IsPUA(Head(s)) THEN 1 + PUARun(Tail(s)) ELSE 0

\* length of the match of turn\d+(?:search|news)\d+[PUA]*\.? at the start of
\* s, 0 when there is none; withPUA is false for the pattern without [PUA]*
TurnMatchLen(s, withPUA) ==
  IF s = <<>> \/ ~IsTurnToken(Head(s)) THEN 0
  ELSE LET pua == IF withPUA THEN PUARun(Tail(s)) ELSE 0
           rest == SubSeq(s, 2 + pua, Len(s))
       IN 1 + pua + (IF rest # <<>> /\ Head(rest) = "." THEN 1 ELSE 0)

\* length of the lazy .*? up to the first turn token on the same line, -1
\* when the line holds none
RECURSIVE LazyGap(_)
LazyGap(s) ==
  IF s = <<>> \/ Head(s) = "\n" THEN -1
  ELSE IF IsTurnToken(Head(s)) THEN 0
       ELSE IF LazyGap(Tail(s)) = -1 THEN -1 ELSE 1 + LazyGap(Tail(s))

\* length of the match of pattern 1 at the start of s, 0 when there is none
CiteMatchLen(s) ==
  LET p == PUARun(s)
      afterCite == SubSeq(s, p + 2, Len(s))
  IN IF Len(s) > p /\ IsCiteWord(s[p + 1]) /\ LazyGap(afterCite) # -1
     THEN p + 1 + LazyGap(afterCite)
          + TurnMatchLen(SubSeq(afterCite, LazyGap(afterCite) + 1, Len(afterCite)), TRUE)
     ELSE 0

\* Pattern 1
RECURSIVE RemoveCitePatterns(_)
RemoveCitePatterns(s) ==
  IF s = <<>> THEN <<>>
  ELSE IF CiteMatchLen(s) > 0
       THEN RemoveCitePatterns(SubSeq(s, CiteMatchLen(s) + 1, Len(s)))
       ELSE <<Head(s)>> \o RemoveCitePatterns(Tail(s))

\* Patterns 2 and 3
RECURSIVE RemoveTurnPatterns(_, _)
RemoveTurnPatterns(s, withPUA) ==
  IF s = <<>> THEN <<>>
  ELSE IF TurnMatchLen(s, withPUA) > 0
       THEN RemoveTurnPatterns(SubSeq(s, TurnMatchLen(s, withPUA) + 1, Len(s)), withPUA)
       ELSE <<Head(s)>> \o RemoveTurnPatterns(Tail(s), withPUA)

\* Pattern 4
RECURSIVE RemovePUA(_)
RemovePUA(s) ==
  IF s = <<>> THEN <<>>
  ELSE IF IsPUA(Head(s)) THEN RemovePUA(Tail(s))
       ELSE <<Head(s)>> \o RemovePUA(Tail(s))

clean_citation_artifacts(content) ==
  RemovePUA(RemoveTurnPatterns(RemoveTurnPatterns(RemoveCitePatterns(content), TRUE), FALSE))

\* timestamp.strftime('%Y-%m-%d, %H:%M:%S') of the first seconds of the epoch
\* (UTC)
FormatCreated(create_time) ==
  IF create_time < 10 THEN "1970-01-01, 00:00:0" \o ToString(create_time)
  ELSE "1970-01-01, 00:00:" \o ToString(create_time)

\* author_display (the labels carry an emoji each, left out here)
AuthorDisplay(author) == IF author = "user" THEN "**User**" ELSE "**Assistant**"

\* variant: the blocks of the messages are appended last message first
RECURSIVE MessageLines_reversed(_)
MessageLines_reversed(messages) ==
  IF messages = <<>> THEN <<>>
  ELSE MessageLines_reversed(Tail(messages)) \o
       << <<AuthorDisplay(Head(messages).author)>>,
          <<>>,
          format_as_blockquote(Head(messages).content),
          <<>> >>

\* the lines appended for the messages
RECURSIVE MessageLines(_)
MessageLines(messages) ==
  IF messages = <<>> THEN <<>>
  ELSE << <<AuthorDisplay(Head(messages).author)>>,
          <<>>,
          format_as_blockquote(Head(messages).content),
          <<>> >> \o MessageLines(Tail(messages))

\* conversation.get('create_time', 0)
CreateTimeOrDefault(conv) == IF conv.ctk = "absent" THEN 0 ELSE conv.ct

\* conversation.get('mapping', {})
MappingOrDefault(conv) == IF conv.mapk = "absent" THEN <<>> ELSE conv.mapping

\* extract_messages(None) and datetime.fromtimestamp(None) raise
RenderFails(conv) == conv.mapk = "null" \/ conv.ctk = "null"

convert_conversation_to_markdown(conv) ==
  LET messages == extract_messages(MappingOrDefault(conv))
      content_lines ==
        << <<"**Created:** ", FormatCreated(CreateTimeOrDefault(conv))>>,
           <<>>, <<"---">>, <<>> >> \o MessageLines(messages)
  IN clean_citation_artifacts(JoinLines(content_lines))

\* ------------------------------------------------------------------------
\* Conversations
\*
\* An entry of the input list is a record: kind ("none" for None, "str" for
\* a non-empty string, "dict" for a dict), and for each key of a dict its
\* kind and value: idk ("absent", "str", "list" for a non-empty list), titlek
\* ("absent", "str", "null"), ctk ("absent", "int", "null"), mapk ("absent",
\* "dict", "null").
\* ------------------------------------------------------------------------

Entry(kind, idk, id, titlek, title, ctk, ct, mapk, mapping) ==
  [kind |-> kind, idk |-> idk, id |-> id, titlek |-> titlek, title |-> title,
   ctk |-> ctk, ct |-> ct, mapk |-> mapk, mapping |-> mapping]

Conv(id, title, ct, mapping) ==
  Entry("dict", "str", id, "str", title, "int", ct, "dict", mapping)

TextNode(role, text, children) ==
  [hasMsg |-> TRUE, role |-> role, ck |-> "parts",
   parts |-> <<[isStr |-> TRUE, text |-> text]>>, text |-> <<>>,
   parentNull |-> TRUE, children |-> children]

\* a mapping of one user message "hi"
HiMapping == <<[id |-> "A", node |-> TextNode("user", <<"h", "i">>, <<>>)]>>

NoneEntry == Entry("none", "absent", <<>>, "absent", <<>>, "absent", 0, "absent", <<>>)
EmptyDict == Entry("dict", "absent", <<>>, "absent", <<>>, "absent", 0, "absent", <<>>)
NoIdConv == Entry("dict", "absent", <<>>, "str", <<"T">>, "int", 1, "dict", <<>>)
GoodA == Conv(<<"a">>, <<"T">>, 1, <<>>)
GoodB == Entry("dict", "str", <<"b">>, "str", <<"T", "*">>, "absent", 0, "dict", HiMapping)
GoodC == Conv(<<"c">>, <<" ", "T">>, 3, <<>>)
UnderscoreC == Conv(<<"c">>, <<"x", "_", "y", "_", "a">>, 1, <<>>)
NullMapping == Entry("dict", "str", <<"c">>, "str", <<"T">>, "absent", 0, "null", <<>>)
NullTitle == Entry("dict", "str", <<"c">>, "null", <<>>, "int", 2, "dict", <<>>)
NullTime == Entry("dict", "str", <<"b">>, "str", <<"T">>, "null", 0, "dict", <<>>)

Entries ==
  {NoneEntry, EmptyDict, NoIdConv, GoodA, GoodB, GoodC, UnderscoreC,
   NullMapping, NullTitle, NullTime}

\* the input lists of at most MaxConvs entries
Inputs == UNION {[1..n -> Entries] : n \in 0..MaxConvs}

\* bool(conv): None and the empty dict are falsy
Truthy(e) ==
  \/ e.kind = "str"
  \/ /\ e.kind = "dict"
     /\ ~(e.idk = "absent" /\ e.titlek = "absent" /\ e.ctk = "absent" /\ e.mapk = "absent")

\* conv and isinstance(conv, dict)
IsValid(e) == Truthy(e) /\ e.kind = "dict"

RECURSIVE SelectValid(_)
SelectValid(s) ==
  IF s = <<>> THEN <<>>
  ELSE IF IsValid(Head(s)) THEN <<Head(s)>> \o SelectValid(Tail(s))
       ELSE SelectValid(Tail(s))

\* the sort key x.get('create_time', 0), defined when it is a number
SortKey(e) == IF e.ctk = "int" THEN e.ct ELSE 0

\* a key that is None cannot be compared: sorted raises TypeError as soon as
\* it compares two keys, that is when the list has two elements or more
SortRaises(s) == Len(s) >= 2 /\ \E k \in 1..Len(s) : s[k].ctk = "null"

\* insertion of e after every element whose key is not greater (stable)
RECURSIVE InsertSorted(_, _)
InsertSorted(e, s) ==
  IF s = <<>> THEN <<e>>
  ELSE IF SortKey(Head(s)) <= SortKey(e) THEN <<Head(s)>> \o InsertSorted(e, Tail(s))
       ELSE <<e>> \o s

\* variant: the list is left in input order
Sorted_inputOrder(s) == s

\* sorted(valid_conversations, key=...)
RECURSIVE Sorted(_)
Sorted(s) ==
  IF s = <<>> THEN <<>>
  ELSE InsertSorted(s[Len(s)], Sorted(SubSeq(s, 1, Len(s) - 1)))

\* not conversation_id
LacksId(e) == e.idk = "absent" \/ (e.idk = "str" /\ e.id = <<>>)

\* conversation.get('title', 'Untitled') of the file record
RecordTitle(conv) == IF conv.titlek = "absent" THEN <<"Untitled">> ELSE conv.title

\* ------------------------------------------------------------------------
\* State
\* ------------------------------------------------------------------------
VARIABLES
  conversations,        \* the parsed conversations.json, the same in every run
  dir,                  \* the output directory: the files it holds
  pc,                   \* position of main / process_conversations
  processed_ids,        \* the global seen-id set
  sorted_conversations, \* local of process_conversations
  idx,                  \* position of the for loop in sorted_conversations
  used_filenames,       \* local of process_conversations
  results,              \* the result dictionary
  markdown_content,     \* local of the try block
  widx,                 \* position of the write loop of main in results.files
  seen0,                \* history: processed_ids when process_conversations began
  outcome,              \* history: what became of each sorted conversation
  file_src,             \* history: the sorted position each file record came from
  written,              \* history: the sorted positions whose file this run wrote
  prev,                 \* history: outcome and files written of the last finished run
  w_mapping,            \* extract_messages: its argument
  w_pc,                 \* extract_messages: position
  w_st,                 \* extract_messages: current_id, visited, messages
  f_pc,                 \* a direct call of one function: position
  f_conv,               \* a direct call: the conversation passed
  f_names,              \* a direct call: the list of filenames passed
  f_result,             \* a direct call: the value returned
  first_call            \* history: the input and the files of the first of two calls

vars ==
  <<conversations, dir, pc, processed_ids, sorted_conversations, idx,
    used_filenames, results, markdown_content, widx, seen0, outcome, file_src,
    written, prev, w_mapping, w_pc, w_st, f_pc, f_conv, f_names, f_result,
    first_call>>

batchVars ==
  <<conversations, dir, pc, processed_ids, sorted_conversations, idx,
    used_filenames, results, markdown_content, widx, seen0, outcome, file_src,
    written, prev>>

walkVars == <<w_mapping, w_pc, w_st>>

callVars == <<f_pc, f_conv, f_names, f_result, first_call>>

EmptyResults == [processed |-> 0, skipped |-> 0, errors |-> 0, files |-> <<>>]

\* a file of the output directory: its name, its content and (history) the
\* conversation id it was written for, <<>> for a file that was there before
File(name, content, cid) == [name |-> name, content |-> content, cid |-> cid]

\* a file left by an earlier version that named files date_title_id.md
OldFile(id) == File(<<"0", "_", "x", "_">> \o id \o <<".md">>, <<>>, <<>>)

\* the output directory before the first run
InitialDirs == {{}, {OldFile(<<"a">>)}, {OldFile(<<"a">>), OldFile(<<"b">>), OldFile(<<"c">>)}}

Names(d) == {f.name : f \in d}

\* no run of main has finished yet
NoRun == [done |-> FALSE, outcome |-> <<>>, written |-> {}]

BatchIdle ==
  /\ pc = "idle"
  /\ processed_ids = {}
  /\ sorted_conversations = <<>>
  /\ idx = 1
  /\ used_filenames = <<>>
  /\ results = EmptyResults
  /\ markdown_content = <<>>
  /\ widx = 1
  /\ seen0 = {}
  /\ outcome = <<>>
  /\ file_src = <<>>
  /\ written = {}
  /\ prev = NoRun

WalkIdle ==
  /\ w_mapping = <<>>
  /\ w_pc = "idle"
  /\ w_st = WalkInit(NoId)

\* no first call has returned yet
NoCall == [input |-> <<>>, files |-> <<>>]

\* no function is called directly
CallIdle ==
  /\ f_pc = "idle"
  /\ f_conv = NoneEntry
  /\ f_names = <<>>
  /\ f_result = <<>>
  /\ first_call = NoCall

Init ==
  /\ conversations \in Inputs
  /\ dir \in InitialDirs
  /\ BatchIdle
  /\ WalkIdle
  /\ CallIdle

\* ------------------------------------------------------------------------
\* main and process_conversations
\* ------------------------------------------------------------------------

\* variant: no id is ever found in the seen-id set
AlreadyProcessed_never(conversation_id, ids) == FALSE

\* conversation_id in processed_ids
AlreadyProcessed(conversation_id, ids) == conversation_id \in ids

\* variant: the id is not added
AddProcessed_forgotten(ids, conversation_id) == ids

\* processed_ids.add(conversation_id)
AddProcessed(ids, conversation_id) == ids \cup {conversation_id}

\* variant: a skip is counted as an error
CountSkipped_asError(r) == [r EXCEPT !.errors = @ + 1]

\* results['skipped'] += 1
CountSkipped(r) == [r EXCEPT !.skipped = @ + 1]

\* results['files'].append(file_data); results['processed'] += 1
CountProcessed(r, file_data) ==
  [r EXCEPT !.files = Append(@, file_data), !.processed = @ + 1]

\* variant: a failed write is counted as an error and stays counted as processed
CountWriteError_noDecrement(r) == [r EXCEPT !.errors = @ + 1]

\* results['errors'] += 1; results['processed'] -= 1
CountWriteError(r) == [r EXCEPT !.errors = @ + 1, !.processed = @ - 1]

\* main up to the call of process_conversations: the seen-id set is seeded
\* from the names of the output directory
MainStart ==
  /\ pc \in {"idle", "raised"}
  /\ processed_ids' = get_existing_conversation_ids(Names(dir))
  /\ pc' = "begin"
  /\ UNCHANGED <<conversations, dir, sorted_conversations, idx, used_filenames,
                 results, markdown_content, widx, seen0, outcome, file_src,
                 written, prev>>
  /\ UNCHANGED <<walkVars, callVars>>

\* variant: the valid conversations are sorted in place, in the input list
Begin_sortsInPlace ==
  /\ pc = "begin"
  /\ LET valid_conversations == SelectValid(conversations)
     IN /\ results' = EmptyResults
        /\ seen0' = processed_ids
        /\ used_filenames' = <<>>
        /\ markdown_content' = <<>>
        /\ idx' = 1
        /\ widx' = 1
        /\ file_src' = <<>>
        /\ written' = {}
        /\ IF SortRaises(valid_conversations)
           THEN /\ pc' = "raised"
                /\ sorted_conversations' = <<>>
                /\ outcome' = <<>>
                /\ conversations' = valid_conversations
           ELSE /\ pc' = "loop"
                /\ sorted_conversations' = Sorted(valid_conversations)
                /\ outcome' = [k \in 1..Len(valid_conversations) |-> "pending"]
                /\ conversations' = Sorted(valid_conversations)
  /\ UNCHANGED <<dir, processed_ids, prev>>
  /\ UNCHANGED <<walkVars, callVars>>

\* process_conversations up to the for loop: filter, sort
Begin ==
  /\ pc = "begin"
  /\ LET valid_conversations == SelectValid(conversations)
     IN /\ results' = EmptyResults
        /\ seen0' = processed_ids
        /\ used_filenames' = <<>>
        /\ markdown_content' = <<>>
        /\ idx' = 1
        /\ widx' = 1
        /\ file_src' = <<>>
        /\ written' = {}
        /\ IF SortRaises(valid_conversations)
           THEN /\ pc' = "raised"
                /\ sorted_conversations' = <<>>
                /\ outcome' = <<>>
           ELSE /\ pc' = "loop"
                /\ sorted_conversations' = Sorted(valid_conversations)
                /\ outcome' = [k \in 1..Len(valid_conversations) |-> "pending"]
  /\ UNCHANGED <<conversations, dir, processed_ids, prev>>
  /\ UNCHANGED <<walkVars, callVars>>

\* variant: the exception leaves process_conversations, there is no handler
CountError_propagate ==
  /\ pc' = "raised"
  /\ UNCHANGED <<results, outcome, idx>>

\* results['errors'] += 1, then the next conversation (the two continue
\* statements and the except clause)
CountError ==
  /\ results' = [results EXCEPT !.errors = @ + 1]
  /\ outcome' = [outcome EXCEPT ![idx] = "errored"]
  /\ idx' = idx + 1
  /\ pc' = "loop"

\* variant: the continue after a skip is missing, the skipped conversation
\* goes on into the try block
LoopHead_noContinue ==
  /\ pc = "loop"
  /\ idx <= Len(sorted_conversations)
  /\ LET conversation == sorted_conversations[idx]
     IN IF ~IsValid(conversation)
        THEN CountError
        ELSE IF LacksId(conversation)
        THEN CountError
        ELSE IF conversation.idk = "list"
        THEN /\ pc' = "raised"
             /\ UNCHANGED <<results, outcome, idx>>
        ELSE IF AlreadyProcessed(conversation.id, processed_ids)
        THEN /\ results' = CountSkipped(results)
             /\ outcome' = [outcome EXCEPT ![idx] = "skipped"]
             /\ pc' = "try"
             /\ UNCHANGED idx
        ELSE /\ pc' = "try"
             /\ UNCHANGED <<results, outcome, idx>>
  /\ UNCHANGED <<conversations, dir, processed_ids, sorted_conversations,
                 used_filenames, markdown_content, widx, seen0, file_src, written,
                 prev>>
  /\ UNCHANGED <<walkVars, callVars>>

\* head of one iteration of the for loop, up to the try block
LoopHead ==
  /\ pc = "loop"
  /\ idx <= Len(sorted_conversations)
  /\ LET conversation == sorted_conversations[idx]
     IN IF ~IsValid(conversation)
        THEN CountError
        ELSE IF LacksId(conversation)
        THEN CountError
        ELSE IF conversation.idk = "list"
        THEN \* conversation_id in processed_ids: unhashable type
             /\ pc' = "raised"
             /\ UNCHANGED <<results, outcome, idx>>
        ELSE IF AlreadyProcessed(conversation.id, processed_ids)
        THEN /\ results' = CountSkipped(results)
             /\ outcome' = [outcome EXCEPT ![idx] = "skipped"]
             /\ idx' = idx + 1
             /\ pc' = "loop"
        ELSE /\ pc' = "try"
             /\ UNCHANGED <<results, outcome, idx>>
  /\ UNCHANGED <<conversations, dir, processed_ids, sorted_conversations,
                 used_filenames, markdown_content, widx, seen0, file_src, written,
                 prev>>
  /\ UNCHANGED <<walkVars, callVars>>

\* markdown_content = convert_conversation_to_markdown(conversation)
Render ==
  /\ pc = "try"
  /\ LET conversation == sorted_conversations[idx]
     IN IF RenderFails(conversation)
        THEN CountError /\ UNCHANGED markdown_content
        ELSE /\ markdown_content' = convert_conversation_to_markdown(conversation)
             /\ outcome' = [outcome EXCEPT ![idx] = "rendered"]
             /\ pc' = "rendered"
             /\ UNCHANGED <<results, idx>>
  /\ UNCHANGED <<conversations, dir, processed_ids, sorted_conversations,
                 used_filenames, widx, seen0, file_src, written, prev>>
  /\ UNCHANGED <<walkVars, callVars>>

\* filename = generate_filename(conversation, used_filenames);
\* used_filenames.append(filename)
Name ==
  /\ pc = "rendered"
  /\ LET conversation == sorted_conversations[idx]
     IN IF NamingFails(conversation)
        THEN CountError /\ UNCHANGED used_filenames
        ELSE /\ used_filenames' =
                  Append(used_filenames, generate_filename(conversation, used_filenames))
             /\ outcome' = [outcome EXCEPT ![idx] = "named"]
             /\ pc' = "named"
             /\ UNCHANGED <<results, idx>>
  /\ UNCHANGED <<conversations, dir, processed_ids, sorted_conversations,
                 markdown_content, widx, seen0, file_src, written, prev>>
  /\ UNCHANGED <<walkVars, callVars>>

\* the file record is appended, the id joins the seen-id set
Record ==
  /\ pc = "named"
  /\ LET conversation == sorted_conversations[idx]
         file_data == [filename |-> used_filenames[Len(used_filenames)],
                       content |-> markdown_content,
                       title |-> RecordTitle(conversation),
                       conversation_id |-> conversation.id]
     IN /\ results' = CountProcessed(results, file_data)
        /\ processed_ids' = AddProcessed(processed_ids, conversation.id)
        /\ file_src' = Append(file_src, idx)
        /\ outcome' = [outcome EXCEPT ![idx] = "recorded"]
        /\ idx' = idx + 1
        /\ pc' = "loop"
  /\ UNCHANGED <<conversations, dir, sorted_conversations, used_filenames,
                 markdown_content, widx, seen0, written, prev>>
  /\ UNCHANGED <<walkVars, callVars>>

\* return results
Return ==
  /\ pc = "loop"
  /\ idx > Len(sorted_conversations)
  /\ pc' = "returned"
  /\ UNCHANGED <<conversations, dir, processed_ids, sorted_conversations, idx,
                 used_filenames, results, markdown_content, widx, seen0, outcome,
                 file_src, written, prev>>
  /\ UNCHANGED <<walkVars, callVars>>

\* one iteration of the write loop of main: the file is written, or open /
\* write raises, which the except clause counts
WriteFile ==
  /\ pc \in {"returned", "writing"}
  /\ widx <= Len(results.files)
  /\ LET file_data == results.files[widx]
     IN \/ /\ dir' = {f \in dir : f.name # file_data.filename}
                     \cup {File(file_data.filename, file_data.content,
                                file_data.conversation_id)}
           /\ written' = written \cup {file_src[widx]}
           /\ UNCHANGED results
        \/ /\ results' = CountWriteError(results)
           /\ UNCHANGED <<dir, written>>
  /\ widx' = widx + 1
  /\ pc' = "writing"
  /\ UNCHANGED <<conversations, processed_ids, sorted_conversations, idx,
                 used_filenames, markdown_content, seen0, outcome, file_src, prev>>
  /\ UNCHANGED <<walkVars, callVars>>

\* the summary: main returns
MainDone ==
  /\ pc \in {"returned", "writing"}
  /\ widx > Len(results.files)
  /\ pc' = "idle"
  /\ prev' = [done |-> TRUE, outcome |-> outcome, written |-> written]
  /\ UNCHANGED <<conversations, dir, processed_ids, sorted_conversations, idx,
                 used_filenames, results, markdown_content, widx, seen0, outcome,
                 file_src, written>>
  /\ UNCHANGED <<walkVars, callVars>>

Next ==
  \/ MainStart
  \/ Begin
  \/ LoopHead
  \/ Render
  \/ Name
  \/ Record
  \/ Return
  \/ WriteFile
  \/ MainDone

Spec == Init /\ [][Next]_vars

\* ------------------------------------------------------------------------
\* extract_messages, one iteration of its loop at a time
\* ------------------------------------------------------------------------

\* the keys of the mappings, in iteration order
NodeIds == {NodeIdSeq[k] : k \in 1..MaxNodes}

\* the id after id, cyclically
NextNodeId(id) ==
  LET k == CHOOSE j \in 1..MaxNodes : NodeIdSeq[j] = id
  IN NodeIdSeq[(k % MaxNodes) + 1]

\* children lists: none, one child (possibly not a key of the mapping), two
\* children (the first of them one of the first two keys)
ChildLists ==
  {<<>>} \cup {<<x>> : x \in NodeIds \cup {MissingId}}
         \cup {<<x, NextNodeId(x)>> : x \in {NodeIdSeq[1], NodeIdSeq[2]}}

StrPart(text) == [isStr |-> TRUE, text |-> text]

\* a part that is not a string (a citation object)
OtherPart == [isStr |-> FALSE, text |-> <<>>]

\* the messages of a node: none; a user text; a blank text; a message
\* without content; string parts around a part that is not a string
Messages ==
  { [hasMsg |-> FALSE, role |-> "", ck |-> "absent", parts |-> <<>>, text |-> <<>>],
    [hasMsg |-> TRUE, role |-> "user", ck |-> "parts",
     parts |-> <<StrPart(<<"h">>)>>, text |-> <<>>],
    [hasMsg |-> TRUE, role |-> "user", ck |-> "parts",
     parts |-> <<StrPart(<<" ">>)>>, text |-> <<>>],
    [hasMsg |-> TRUE, role |-> "", ck |-> "absent", parts |-> <<>>, text |-> <<>>],
    [hasMsg |-> TRUE, role |-> "assistant", ck |-> "parts",
     parts |-> <<StrPart(<<"h", " ">>), OtherPart, StrPart(<<"i">>)>>, text |-> <<>>] }

Nodes ==
  { [hasMsg |-> m.hasMsg, role |-> m.role, ck |-> m.ck, parts |-> m.parts,
     text |-> m.text, parentNull |-> p, children |-> c] :
       m \in Messages, p \in BOOLEAN, c \in ChildLists }

\* the mapping of the nodes f[1], ..., f[n]; the keys are named in iteration
\* order
MappingOf(f, n) == [k \in 1..n |-> [id |-> NodeIdSeq[k], node |-> f[k]]]

ExtractInit ==
  /\ conversations = <<>>
  /\ dir = {}
  /\ BatchIdle
  /\ \E n \in 0..MaxNodes : \E f \in [1..n -> Nodes] : w_mapping = MappingOf(f, n)
  /\ w_pc = "start"
  /\ w_st = WalkInit(NoId)
  /\ CallIdle

\* the search of the root; without a root the empty list is returned
ExtractStart ==
  /\ w_pc = "start"
  /\ w_st' = WalkInit(FindRoot(w_mapping))
  /\ w_pc' = IF FindRoot(w_mapping) = NoId THEN "done" ELSE "loop"
  /\ UNCHANGED w_mapping
  /\ UNCHANGED <<batchVars, callVars>>

\* one iteration of the while loop
ExtractLoop ==
  /\ w_pc = "loop"
  /\ WalkCond(w_st)
  /\ w_st' = WalkStep(w_mapping, w_st)
  /\ UNCHANGED <<w_mapping, w_pc>>
  /\ UNCHANGED <<batchVars, callVars>>

\* the loop condition fails: return messages
ExtractReturn ==
  /\ w_pc = "loop"
  /\ ~WalkCond(w_st)
  /\ w_pc' = "done"
  /\ UNCHANGED <<w_mapping, w_st>>
  /\ UNCHANGED <<batchVars, callVars>>

ExtractNext == ExtractStart \/ ExtractLoop \/ ExtractReturn

SpecExtract == ExtractInit /\ [][ExtractNext]_vars

\* ------------------------------------------------------------------------
\* generate_filename, called directly
\* ------------------------------------------------------------------------

\* a conversation with the given title (titlek: "absent", "null" or "str")
Titled(titlek, title) ==
  Entry("dict", "str", <<"a">>, titlek, title, "int", 1, "dict", <<>>)

\* the conversations passed: without title, with the title None, and with
\* titles that are empty, plain, hold removed characters, hold only removed
\* characters, are blank, hold brackets, and are longer than 100 characters
FilenameConvs ==
  { Titled("absent", <<>>), Titled("null", <<>>), Titled("str", <<>>),
    Titled("str", <<"T">>), Titled("str", <<"T", "*">>),
    Titled("str", <<"*">>), Titled("str", <<" ">>),
    Titled("str", <<"T", " ", "(", "2", ")">>),
    Titled("str", <<"x99", "a", "b">>) }

\* the names existing_filenames is drawn from
ExistingNames ==
  { <<"T", ".md">>, <<"T", " (", "2", ")", ".md">>, <<"T", " (", "3", ")", ".md">>,
    <<"Conversation", ".md">>, <<"Conversation", " (", "2", ")", ".md">>,
    <<"Untitled", " ", "Conversation", ".md">> }

FilenameInit ==
  /\ conversations = <<>>
  /\ dir = {}
  /\ BatchIdle
  /\ WalkIdle
  /\ f_pc = "call"
  /\ f_conv \in FilenameConvs
  /\ \E n \in 0..MaxExisting : f_names \in [1..n -> ExistingNames]
  /\ f_result = <<>>
  /\ first_call = NoCall

\* generate_filename(f_conv, f_names); a title that is None raises
GenerateFilename ==
  /\ f_pc = "call"
  /\ IF NamingFails(f_conv)
     THEN f_pc' = "raised" /\ UNCHANGED f_result
     ELSE f_pc' = "done" /\ f_result' = generate_filename(f_conv, f_names)
  /\ UNCHANGED <<f_conv, f_names, first_call>>
  /\ UNCHANGED <<batchVars, walkVars>>

SpecFilename == FilenameInit /\ [][GenerateFilename]_vars

\* ------------------------------------------------------------------------
\* convert_conversation_to_markdown, called directly
\* ------------------------------------------------------------------------

\* the messages of the conversations rendered: none; a user text; a text of
\* two paragraphs; a text with a citation and a private-use character
RenderMessages ==
  { [hasMsg |-> FALSE, role |-> "", ck |-> "absent", parts |-> <<>>, text |-> <<>>],
    [hasMsg |-> TRUE, role |-> "user", ck |-> "parts",
     parts |-> <<StrPart(<<"h">>)>>, text |-> <<>>],
    [hasMsg |-> TRUE, role |-> "assistant", ck |-> "parts",
     parts |-> <<StrPart(<<"h", "\n", "\n", "i">>)>>, text |-> <<>>],
    [hasMsg |-> TRUE, role |-> "assistant", ck |-> "parts",
     parts |-> <<StrPart(<<"cite", "x", "turn0search0", ".", "\n", "PUA", "i">>)>>,
     text |-> <<>>] }

\* a node has no child or the next key as its only child
RenderNodes ==
  { [hasMsg |-> m.hasMsg, role |-> m.role, ck |-> m.ck, parts |-> m.parts,
     text |-> m.text, parentNull |-> p, children |-> c] :
       m \in RenderMessages, p \in BOOLEAN,
       c \in {<<>>} \cup {<<x>> : x \in NodeIds} }

\* the conversation passed: with title and create_time, without both, or
\* with the create_time None
RenderConv(titlek, ctk, mapping) ==
  Entry("dict", "str", <<"a">>, titlek, IF titlek = "str" THEN <<"T">> ELSE <<>>,
        ctk, IF ctk = "int" THEN 1 ELSE 0, "dict", mapping)

RenderKeys == {<<"str", "int">>, <<"absent", "absent">>, <<"str", "null">>}

RenderInit ==
  /\ conversations = <<>>
  /\ dir = {}
  /\ BatchIdle
  /\ WalkIdle
  /\ f_pc = "call"
  /\ \E n \in 0..MaxNodes : \E f \in [1..n -> RenderNodes] :
       \E k \in RenderKeys : f_conv = RenderConv(k[1], k[2], MappingOf(f, n))
  /\ f_names = <<>>
  /\ f_result = <<>>
  /\ first_call = NoCall

\* convert_conversation_to_markdown(f_conv); a create_time that is None raises
ConvertToMarkdown ==
  /\ f_pc = "call"
  /\ IF RenderFails(f_conv)
     THEN f_pc' = "raised" /\ UNCHANGED f_result
     ELSE f_pc' = "done" /\ f_result' = convert_conversation_to_markdown(f_conv)
  /\ UNCHANGED <<f_conv, f_names, first_call>>
  /\ UNCHANGED <<batchVars, walkVars>>

SpecRender == RenderInit /\ [][ConvertToMarkdown]_vars

\* ------------------------------------------------------------------------
\* process_conversations, called on an input and then on a permutation of it
\* ------------------------------------------------------------------------

\* the entries of the inputs permuted: two records of create_time 1, two
\* records of id c, a record without create_time, a record without id
PermEntries == {GoodA, GoodB, GoodC, UnderscoreC, NoIdConv}

\* the seen-id set both calls start from
PermSeeds == {{}, {<<"a">>}}

PermInit ==
  /\ \E n \in 0..MaxConvs : conversations \in [1..n -> PermEntries]
  /\ dir = {}
  /\ pc = "begin"
  /\ processed_ids \in PermSeeds
  /\ sorted_conversations = <<>>
  /\ idx = 1
  /\ used_filenames = <<>>
  /\ results = EmptyResults
  /\ markdown_content = <<>>
  /\ widx = 1
  /\ seen0 = {}
  /\ outcome = <<>>
  /\ file_src = <<>>
  /\ written = {}
  /\ prev = NoRun
  /\ WalkIdle
  /\ f_pc = "first"
  /\ f_conv = NoneEntry
  /\ f_names = <<>>
  /\ f_result = <<>>
  /\ first_call = NoCall

\* the first call has returned: its input and its files are kept, and
\* process_conversations is called on a permutation of the input, the seen-id
\* set being what it was before the first call
CallPermuted ==
  /\ pc = "returned"
  /\ f_pc = "first"
  /\ first_call' = [input |-> conversations, files |-> results.files]
  /\ \E p \in Permutations(1..Len(conversations)) :
       conversations' = [k \in 1..Len(conversations) |-> conversations[p[k]]]
  /\ processed_ids' = seen0
  /\ pc' = "begin"
  /\ f_pc' = "second"
  /\ UNCHANGED <<dir, sorted_conversations, idx, used_filenames, results,
                 markdown_content, widx, seen0, outcome, file_src, written, prev>>
  /\ UNCHANGED <<f_conv, f_names, f_result>>
  /\ UNCHANGED walkVars

PermNext ==
  \/ Begin
  \/ LoopHead
  \/ Render
  \/ Name
  \/ Record
  \/ Return
  \/ CallPermuted

SpecPerm == PermInit /\ [][PermNext]_vars

\* ------------------------------------------------------------------------
\* main, run again and again on an input whose names seed the seen-id set
\* ------------------------------------------------------------------------

\* a conversation whose title ends in the id of another conversation
UnderscoreB == Conv(<<"b">>, <<"x", "_", "y", "_", "a">>, 1, <<>>)

\* two conversations of the same sanitized title, and one whose filename
\* seeds the id of the earlier of the two
RunEntries == {GoodA, UnderscoreB, GoodC}

RunsInit ==
  /\ \E n \in 0..MaxConvs : conversations \in [1..n -> RunEntries]
  /\ dir = {}
  /\ BatchIdle
  /\ WalkIdle
  /\ CallIdle

SpecRuns == RunsInit /\ [][Next]_vars

\* ------------------------------------------------------------------------
\* Properties
\* ------------------------------------------------------------------------

Files == results.files

\* process_conversations has returned and main has not yet touched the result
Returned == pc = "returned"

\* the conversation the for loop is at
Cur == sorted_conversations[idx]

\* a record that carries an id
IdBearing(e) == e.kind = "dict" /\ ~LacksId(e)

\* number of id-bearing entries of s
CountIdBearing(s) == Cardinality({k \in 1..Len(s) : IdBearing(s[k])})

\* sorted positions whose outcome is o
WithOutcome(o) == {k \in 1..Len(outcome) : outcome[k] = o}

\* the id at sorted position k was in the seen-id set when the call began, or
\* a file record of an earlier position carries it
SeenBefore(k) ==
  \/ sorted_conversations[k].id \in seen0
  \/ \E m \in 1..Len(Files) :
       file_src[m] < k /\ Files[m].conversation_id = sorted_conversations[k].id

\* C1: in the result of one call no two file records carry the same
\* conversation id, none carries an id that was in the seen-id set when the
\* call began, and every occurrence of an already-seen id is counted in
\* skipped and produces no file record.
C1_NoDuplicateIds ==
  Returned =>
    /\ \A i, j \in 1..Len(Files) :
         i # j => Files[i].conversation_id # Files[j].conversation_id
    /\ \A i \in 1..Len(Files) : Files[i].conversation_id \notin seen0
    /\ results.skipped =
         Cardinality({k \in 1..Len(sorted_conversations) :
                        IdBearing(sorted_conversations[k]) /\ SeenBefore(k)})
    /\ \A k \in 1..Len(sorted_conversations) :
         IdBearing(sorted_conversations[k]) /\ SeenBefore(k)
           => \A m \in 1..Len(Files) : file_src[m] # k

\* an id seeded from the directory and an id repeated inside the batch were
\* both skipped, next to a file record
C1_Witness ==
  /\ Returned
  /\ Len(Files) >= 1
  /\ \E k \in WithOutcome("skipped") : sorted_conversations[k].id \in seen0
  /\ \E k \in WithOutcome("skipped") : sorted_conversations[k].id \notin seen0

\* C2: across two successive runs of main over the same directory and input,
\* every conversation whose file the earlier run wrote is skipped by the
\* later run.
C2_SecondRunSkips ==
  (Returned /\ prev.done) =>
    \A k \in prev.written : outcome[k] = "skipped"

\* C3: the filenames of the file records of one call are pairwise distinct.
C3_DistinctFilenames ==
  \A i, j \in 1..Len(Files) : i # j => Files[i].filename # Files[j].filename

\* three conversations whose titles sanitize to the same base name were
\* recorded
C3_Witness ==
  /\ Returned
  /\ Len(Files) = 3
  /\ \A k \in 1..3 : BaseFilename(sorted_conversations[file_src[k]]) = <<"T">>
  /\ Files[3].filename = <<"T", " (", "3", ")", ".md">>

\* C4: files is non-decreasing in the create_time (0 when missing) of the
\* conversations that produced the records.
C4_Chronological ==
  \A i, j \in 1..Len(Files) :
    i < j => CreateTimeOrDefault(sorted_conversations[file_src[i]])
               <= CreateTimeOrDefault(sorted_conversations[file_src[j]])

\* an input given newest first was recorded oldest first
C4_Witness ==
  /\ Returned
  /\ conversations = <<GoodC, GoodA, GoodB>>
  /\ Len(Files) = 3
  /\ Files[1].conversation_id = <<"b">>
  /\ Files[3].conversation_id = <<"c">>

\* the ids of the input
InputIds ==
  {conversations[k].id :
     k \in {j \in 1..Len(conversations) :
              IdBearing(conversations[j]) /\ conversations[j].idk = "str"}}

\* C5: a call that starts with the seen-id set equal to the ids of its input
\* returns processed = 0, no file record, and skipped = the number of
\* id-bearing entries.
C5_Idempotent ==
  (Returned /\ seen0 = InputIds) =>
    /\ results.processed = 0
    /\ Files = <<>>
    /\ results.skipped = CountIdBearing(conversations)

C5_Witness ==
  /\ Returned
  /\ seen0 = InputIds
  /\ Cardinality(InputIds) = 3
  /\ results.skipped = 3

\* C6: at return every id-bearing record has been counted in exactly one of
\* processed, skipped and errors, and processed + skipped is at most the
\* number of id-bearing entries.
C6_CountedOnce ==
  Returned =>
    /\ \A k \in 1..Len(sorted_conversations) :
         outcome[k] \in {"recorded", "skipped", "errored"}
    /\ results.processed = Cardinality(WithOutcome("recorded"))
    /\ results.skipped = Cardinality(WithOutcome("skipped"))
    /\ results.errors = Cardinality(WithOutcome("errored"))
    /\ \A k \in 1..Len(sorted_conversations) :
         ~IdBearing(sorted_conversations[k]) => outcome[k] = "errored"
    /\ results.processed + results.skipped <= CountIdBearing(conversations)

\* one conversation recorded, one skipped, one id-bearing one in error
C6_Witness ==
  /\ Returned
  /\ results.processed = 1
  /\ results.skipped = 1
  /\ \E k \in WithOutcome("errored") : IdBearing(sorted_conversations[k])

\* C7: every entry that is None, not a record, or a record without id adds
\* one to errors, so errors is at least the number of such entries.
C7_InvalidCounted ==
  Returned =>
    results.errors >=
      Cardinality({k \in 1..Len(conversations) : ~IdBearing(conversations[k])})

\* rendering or naming the current conversation raises
FailsHere ==
  \/ pc = "try" /\ RenderFails(Cur)
  \/ pc = "rendered" /\ NamingFails(Cur)

\* C8: when rendering or naming a conversation fails, errors grows by one, no
\* file record is appended, and the loop goes on to the next conversation
\* with the seen-id set, the used filenames and the rest of the result as
\* they were before that conversation.
C8_FailureIsolated ==
  [][FailsHere =>
       /\ results' = [results EXCEPT !.errors = @ + 1]
       /\ processed_ids' = processed_ids
       /\ used_filenames' = used_filenames
       /\ sorted_conversations' = sorted_conversations
       /\ idx' = idx + 1
       /\ pc' = "loop"]_vars

\* a rendering failure and a naming failure were followed by a recorded
\* conversation
C8_Witness ==
  /\ Returned
  /\ sorted_conversations = <<NullMapping, NullTitle, GoodC>>
  /\ outcome = <<"errored", "errored", "recorded">>
  /\ results.errors = 2
  /\ Len(Files) = 1

\* C9: process_conversations never raises.
C9_NeverRaises == pc # "raised"

\* the mapping is two nodes, each the first child of the other
TwoCycle(mapping) ==
  /\ Len(mapping) = 2
  /\ mapping[1].node.children # <<>>
  /\ mapping[2].node.children # <<>>
  /\ mapping[1].node.children[1] = mapping[2].id
  /\ mapping[2].node.children[1] = mapping[1].id

\* C10: extract_messages visits each id at most once: the loop has run as
\* many iterations as there are distinct ids visited, at most one of them
\* outside the mapping, each iteration adds at most one message, and a
\* two-node cycle yields at most 2 messages.
C10_WalkBounded ==
  /\ w_st.iters = Cardinality(w_st.visited)
  /\ w_st.iters <= Len(w_mapping) + 1
  /\ Len(w_st.messages) <= w_st.iters
  /\ (w_pc = "done" /\ TwoCycle(w_mapping)) => Len(w_st.messages) <= 2

\* the walk of a two-node cycle has returned with both messages
C10_Witness ==
  /\ w_pc = "done"
  /\ TwoCycle(w_mapping)
  /\ w_st.iters = 2
  /\ Len(w_st.messages) = 2

\* p orders the nodes of the mapping as a strict linear chain: p[1] is the
\* only node without parent, the only child of each node is the next node,
\* and the last node has no child
IsChainOrder(mapping, p) ==
  LET n == Len(mapping)
  IN /\ \A i, j \in 1..n : i # j => p[i] # p[j]
     /\ \A i \in 1..n : mapping[p[i]].node.parentNull <=> (i = 1)
     /\ \A i \in 1..n : mapping[p[i]].node.children =
                          IF i < n THEN <<mapping[p[i + 1]].id>> ELSE <<>>

\* the node carries a message with an author role and a text that is not blank
NonBlankText(node) ==
  /\ node.hasMsg
  /\ node.role # ""
  /\ node.ck \in {"parts", "str"}
  /\ \E k \in 1..Len(TextContent(node)) : ~IsSpace(TextContent(node)[k])

LinearChain(mapping) ==
  /\ Len(mapping) >= 1
  /\ \E p \in [1..Len(mapping) -> 1..Len(mapping)] : IsChainOrder(mapping, p)
  /\ \A k \in 1..Len(mapping) : NonBlankText(mapping[k].node)

ChainOrder(mapping) ==
  CHOOSE p \in [1..Len(mapping) -> 1..Len(mapping)] : IsChainOrder(mapping, p)

\* C11: for a mapping that is a strict linear chain of N nodes whose messages
\* all have a text that is not blank, extract_messages returns exactly N
\* messages, the i-th carrying the author role and the trimmed text of the
\* i-th node of the chain.
C11_LinearChain ==
  (w_pc = "done" /\ LinearChain(w_mapping)) =>
    LET p == ChainOrder(w_mapping)
    IN /\ Len(w_st.messages) = Len(w_mapping)
       /\ \A i \in 1..Len(w_mapping) :
            /\ w_st.messages[i].author = w_mapping[p[i]].node.role
            /\ w_st.messages[i].content = Strip(TextContent(w_mapping[p[i]].node))

\* the walk of a chain of two nodes, stored in the mapping in the opposite
\* order, has returned both messages
C11_Witness ==
  /\ w_pc = "done"
  /\ Len(w_mapping) = 2
  /\ LinearChain(w_mapping)
  /\ ChainOrder(w_mapping)[1] = 2
  /\ Len(w_st.messages) = 2
  /\ w_st.messages[1].author # w_st.messages[2].author

\* base.md
Plain(base) == base \o <<".md">>

\* base (k).md
Numbered(base, k) == base \o <<" (">> \o Decimal(k) \o <<")", ".md">>

\* C12: generate_filename returns the base name plus '.md' when that name is
\* not in existing_filenames; otherwise it returns 'base (k).md' for the
\* smallest k >= 2 such that this candidate is not in existing_filenames; the
\* name returned is never a member of existing_filenames.
C12_SmallestFree ==
  f_pc = "done" =>
    LET base == BaseFilename(f_conv)
    IN /\ ~InSeq(f_result, f_names)
       /\ ~InSeq(Plain(base), f_names) => f_result = Plain(base)
       /\ InSeq(Plain(base), f_names) =>
            \E k \in 2..(Len(f_names) + 1) :
              /\ f_result = Numbered(base, k)
              /\ \A j \in 2..(k - 1) : InSeq(Numbered(base, j), f_names)

\* base.md and base (2).md are taken, base (3).md is returned
C12_Witness ==
  /\ f_pc = "done"
  /\ InSeq(Plain(BaseFilename(f_conv)), f_names)
  /\ InSeq(Numbered(BaseFilename(f_conv), 2), f_names)
  /\ f_names[1] # Plain(BaseFilename(f_conv))
  /\ f_result = Numbered(BaseFilename(f_conv), 3)

\* the base of a filename: what precedes the suffix and the extension
RECURSIVE ResultBase(_)
ResultBase(filename) ==
  IF filename = <<>> \/ Head(filename) \in {" (", ".md"} THEN <<>>
  ELSE <<Head(filename)>> \o ResultBase(Tail(filename))

\* C13: the filename base is the sanitized title: a conversation with no
\* title key gets the base 'Untitled Conversation', a conversation whose
\* title sanitizes to the empty string (an empty title included) gets the base
\* 'Conversation'; the filename returned always ends in '.md' and its base is
\* never empty.
C13_Base ==
  f_pc = "done" =>
    /\ f_result # <<>> /\ f_result[Len(f_result)] = ".md"
    /\ ResultBase(f_result) # <<>>
    /\ f_conv.titlek = "absent" =>
         ResultBase(f_result) = <<"Untitled", " ", "Conversation">>
    /\ (f_conv.titlek = "str" /\ clean_filename(f_conv.title) = <<>>) =>
         ResultBase(f_result) = <<"Conversation">>
    /\ (f_conv.titlek = "str" /\ clean_filename(f_conv.title) # <<>>) =>
         ResultBase(f_result) = clean_filename(f_conv.title)

\* a title of removed characters only was given the base 'Conversation'
C13_Witness ==
  /\ f_pc = "done"
  /\ f_conv.titlek = "str"
  /\ f_conv.title # <<>>
  /\ clean_filename(f_conv.title) = <<>>
  /\ ResultBase(f_result) = <<"Conversation">>

\* the text t occurs in the line
Contains(line, t) ==
  \E k \in 0..(Len(line) - Len(t)) : SubSeq(line, k + 1, k + Len(t)) = t

\* C14: the document returned by convert_conversation_to_markdown starts with
\* a header line that identifies the conversation by its title ('Untitled
\* Conversation' when the title is missing), followed by the bold 'Created:'
\* line, the '---' rule and a blank line.
C14_TitleHeader ==
  f_pc = "done" =>
    LET lines == SplitLines(f_result)
    IN /\ lines[1] # <<>>
       /\ Contains(lines[1], TitleOrDefault(f_conv))
       /\ \E k \in 2..(Len(lines) - 3) :
            /\ lines[k] # <<>> /\ lines[k][1] = "**Created:** "
            /\ lines[k + 1] = <<>>
            /\ lines[k + 2] = <<"---">>
            /\ lines[k + 3] = <<>>

\* the lines of a content block: the lines of the text, quoted and cleaned
\* of citation artifacts
RECURSIVE ContentBlock(_)
ContentBlock(lines) ==
  IF lines = <<>> THEN <<>>
  ELSE <<clean_citation_artifacts(QuoteLine(Head(lines)))>> \o ContentBlock(Tail(lines))

\* the blocks of the messages, in their order: a label, a blank line, the
\* content block, a blank line
RECURSIVE Blocks(_)
Blocks(messages) ==
  IF messages = <<>> THEN <<>>
  ELSE << <<IF Head(messages).author = "user" THEN "**User**" ELSE "**Assistant**">>,
          <<>> >>
       \o ContentBlock(SplitLines(Head(messages).content))
       \o << <<>> >>
       \o Blocks(Tail(messages))

\* C15: in the rendered document the message blocks appear in exactly the
\* order extract_messages returned them, one author label followed by one
\* content block per extracted message, nothing reordered, merged or left out.
C15_BlocksInOrder ==
  f_pc = "done" =>
    LET lines == SplitLines(f_result)
    IN /\ Len(lines) >= 4
       /\ SubSeq(lines, 5, Len(lines)) = Blocks(extract_messages(MappingOrDefault(f_conv)))

\* a conversation of two messages of different authors, the second of two
\* paragraphs, was rendered
C15_Witness ==
  /\ f_pc = "done"
  /\ Len(extract_messages(MappingOrDefault(f_conv))) = 2
  /\ extract_messages(MappingOrDefault(f_conv))[1].author = "user"
  /\ Len(SplitLines(extract_messages(MappingOrDefault(f_conv))[2].content)) = 3
  /\ Len(SplitLines(f_result)) = 4 + 4 + 6

\* C16: in the write phase of main a failure writing one file record
\* decrements processed by one and increments errors by one, and every later
\* record is still attempted; after the phase processed is the number of
\* records written successfully, and processed + errors is what it was before
\* the phase (the records returned plus the conversations that errored).
C16_WriteFailures ==
  /\ pc \in {"returned", "writing"} =>
       /\ results.processed = Cardinality(written) + (Len(Files) - (widx - 1))
       /\ results.processed + results.errors =
            Len(Files) + Cardinality(WithOutcome("errored"))
  /\ pc = "idle" =>
       /\ widx = Len(Files) + 1
       /\ results.processed = Cardinality(written)
       /\ results.processed + results.errors =
            Len(Files) + Cardinality(WithOutcome("errored"))

\* of three records the second failed to be written, the third was written
C16_Witness ==
  /\ pc = "idle"
  /\ Len(Files) = 3
  /\ written = {file_src[1], file_src[3]}
  /\ results.processed = 2
  /\ results.errors = 1

\* the conversation ids and filenames of a files sequence, in its order
IdsAndNames(files) ==
  [k \in 1..Len(files) |-> <<files[k].conversation_id, files[k].filename>>]

\* the second of the two calls has returned
SecondReturned == pc = "returned" /\ f_pc = "second"

\* C17 as claimed: for any two input sequences that are permutations of each
\* other and start from the same seen-id set, process_conversations returns
\* the same files sequence (the same conversation ids with the same filenames
\* in the same order).
C17_OrderIndependent ==
  SecondReturned => IdsAndNames(Files) = IdsAndNames(first_call.files)

\* no two id-bearing records of s have the same sort key
DistinctTimes(s) ==
  \A i, j \in 1..Len(s) :
    (i # j /\ IdBearing(s[i]) /\ IdBearing(s[j])) => SortKey(s[i]) # SortKey(s[j])

\* C17 amended: for two input sequences that are permutations of each other,
\* start from the same seen-id set and hold no two id-bearing records of the
\* same create_time (a missing one counting as 0), process_conversations
\* returns the same files sequence.
C17_DistinctTimesOrderIndependent ==
  (SecondReturned /\ DistinctTimes(conversations)) =>
    IdsAndNames(Files) = IdsAndNames(first_call.files)

\* three records of distinct times were passed in two different orders,
\* neither of them chronological, and gave the same three files
C17_Witness ==
  /\ SecondReturned
  /\ DistinctTimes(conversations)
  /\ Len(Files) = 3
  /\ first_call.input # conversations
  /\ first_call.input # sorted_conversations
  /\ conversations # sorted_conversations
  /\ Files = first_call.files

\* every file of the output directory was written by a run, under the name
\* generate_filename gave it
OnlyGeneratedNames == \A f \in dir : f.cid # <<>>

\* C18: when the output directory holds only files named by
\* generate_filename, get_existing_conversation_ids recovers no identifier
\* from them: the set main seeds processed_ids with is empty.
C18_NoSeedFromTitles ==
  (pc = "begin" /\ OnlyGeneratedNames) => processed_ids = {}

\* C19: process_conversations and the functions it calls leave the input
\* unchanged: no step of a run changes the input sequence, its length, its
\* order, or any conversation record, mapping or node in it.
C19_InputUnchanged == [][conversations' = conversations]_vars

\* a call has returned the files of an input of three entries, one of them
\* dropped by the filter and the other two not in chronological order
C19_Witness ==
  /\ Returned
  /\ Len(conversations) = 3
  /\ Len(sorted_conversations) = 2
  /\ sorted_conversations[1] = conversations[3]
  /\ sorted_conversations[2] = conversations[1]
  /\ sorted_conversations[1] # sorted_conversations[2]
  /\ Len(Files) = 2

\* the positions of the nodes without parent that carry a message
RootPositions(mapping) ==
  {k \in 1..Len(mapping) : mapping[k].node.parentNull /\ mapping[k].node.hasMsg}

\* the positions of the nodes that carry a message with content
ContentPositions(mapping) ==
  {k \in 1..Len(mapping) : mapping[k].node.hasMsg /\ mapping[k].node.ck # "absent"}

\* the least element of a non-empty set of positions
First(S) == CHOOSE k \in S : \A j \in S : k <= j

\* where the claim has the walk start, NoId when nowhere
StartNode(mapping) ==
  IF RootPositions(mapping) # {} THEN mapping[First(RootPositions(mapping))].id
  ELSE IF ContentPositions(mapping) # {}
       THEN mapping[First(ContentPositions(mapping))].id
       ELSE NoId

\* C20: extract_messages starts at the first node in mapping iteration order
\* that has parent null and a present message; if there is none, at the first
\* node in iteration order with a present message whose content is present;
\* if there is none either, it returns the empty sequence.
C20_RootSelection ==
  LET start == StartNode(w_mapping)
  IN /\ (w_pc = "loop" /\ w_st.iters = 0) =>
          /\ start # NoId
          /\ w_st.current_id = start
     /\ (w_pc \in {"loop", "done"} /\ w_st.iters >= 1) =>
          start \in w_st.visited
     /\ (w_pc # "start" /\ start = NoId) =>
          w_pc = "done" /\ w_st.messages = <<>> /\ w_st.iters = 0

\* no node without parent carries a message, the first node carries a
\* message without content, and the walk starts at the second
C20_Witness ==
  /\ w_pc = "loop"
  /\ w_st.iters = 0
  /\ Len(w_mapping) = 2
  /\ RootPositions(w_mapping) = {}
  /\ w_mapping[1].node.hasMsg
  /\ ContentPositions(w_mapping) = {2}
  /\ w_st.current_id = w_mapping[2].id

\* the position of the key id in the mapping, 0 when it is not a key
PositionOf(mapping, id) ==
  IF \E k \in 1..Len(mapping) : mapping[k].id = id
  THEN CHOOSE k \in 1..Len(mapping) : mapping[k].id = id
  ELSE 0

\* the first child of the node with key id, NoId when there is none
FirstChild(mapping, id) ==
  LET k == PositionOf(mapping, id)
  IN IF k = 0 \/ mapping[k].node.children = <<>> THEN NoId
     ELSE mapping[k].node.children[1]

\* the ids met from id on by following first children, up to an id met before
RECURSIVE PathFrom(_, _, _)
PathFrom(mapping, id, met) ==
  IF id = NoId \/ id \in met THEN <<>>
  ELSE <<id>> \o PathFrom(mapping, FirstChild(mapping, id), met \cup {id})

\* the first-child path: root, children[0] of root, and so on
FirstChildPath(mapping) == PathFrom(mapping, StartNode(mapping), {})

\* the text of the string parts of a content, in order
RECURSIVE StringParts(_)
StringParts(parts) ==
  IF parts = <<>> THEN <<>>
  ELSE (IF Head(parts).isStr THEN Head(parts).text ELSE <<>>) \o StringParts(Tail(parts))

\* the text of the message of a node: of its string parts, or the content
\* itself when it is a string
NodeText(node) ==
  IF node.ck = "parts" THEN StringParts(node.parts)
  ELSE IF node.ck = "str" THEN node.text
  ELSE <<>>

\* the node with key id carries a message whose text is not blank
Contributes(mapping, id) ==
  LET k == PositionOf(mapping, id)
  IN /\ k # 0
     /\ mapping[k].node.hasMsg
     /\ \E j \in 1..Len(NodeText(mapping[k].node)) :
          ~IsSpace(NodeText(mapping[k].node)[j])

\* the ids of a path whose nodes contribute a message
ContributingOf(mapping, path) ==
  LET Test(id) == Contributes(mapping, id)
  IN SelectSeq(path, Test)

\* the ids of the first-child path whose nodes contribute a message
ContributingPath(mapping) == ContributingOf(mapping, FirstChildPath(mapping))

\* the elements of a sequence
Range(s) == {s[k] : k \in 1..Len(s)}

\* C21: extract_messages follows only the first-child path from the root:
\* only ids of the path root, children[0] of root, ... are visited, so a node
\* reached only through a child that is not the first contributes no message,
\* and the walk ends without error at an id that is not a key of the mapping:
\* when it has returned it has visited exactly the path, once each.
C21_FirstChildPath ==
  LET path == FirstChildPath(w_mapping)
  IN /\ w_st.visited \subseteq Range(path)
     /\ Len(w_st.messages) <= Len(ContributingOf(w_mapping, path))
     /\ w_pc = "done" =>
          /\ w_st.visited = Range(path)
          /\ w_st.iters = Len(path)

\* the root has two children; the second one carries a text and is not on
\* the first-child path, and the walk has returned the message of the root only
C21_Witness ==
  /\ w_pc = "done"
  /\ Len(w_mapping) = 2
  /\ Len(GetNode(w_mapping, StartNode(w_mapping)).children) = 2
  /\ LET other == GetNode(w_mapping, StartNode(w_mapping)).children[2]
     IN /\ other \notin Range(FirstChildPath(w_mapping))
        /\ Contributes(w_mapping, other)
  /\ Len(w_st.messages) = 1

\* the contributing nodes of the first-child path, in its order
ContributingNodes(mapping) ==
  LET ids == ContributingPath(mapping)
  IN [i \in 1..Len(ids) |-> mapping[PositionOf(mapping, ids[i])].node]

\* the node of the i-th contributing id of the first-child path
ContributingNode(mapping, i) == ContributingNodes(mapping)[i]

\* C22: for a message whose content has parts, the extracted text is the
\* concatenation, in order, of exactly the parts that are strings, then
\* trimmed; a part that is not a string contributes nothing and no placeholder.
C22_StringParts ==
  w_pc = "done" =>
    LET nodes == ContributingNodes(w_mapping)
    IN /\ Len(w_st.messages) = Len(nodes)
       /\ \A i \in 1..Len(w_st.messages) :
            w_st.messages[i].content = Strip(NodeText(nodes[i]))

\* a message of the parts "h ", a citation object and "i" was extracted as
\* "h i"
C22_Witness ==
  /\ w_pc = "done"
  /\ Len(w_st.messages) >= 1
  /\ LET parts == ContributingNode(w_mapping, 1).parts
     IN /\ Len(parts) = 3
        /\ parts[1].isStr /\ ~parts[2].isStr /\ parts[3].isStr
  /\ w_st.messages[1].content = <<"h", " ", "i">>

\* C23: no message returned by extract_messages has empty or whitespace-only
\* content, and every content is trimmed; a node on the path with no message,
\* no content or only blank text is skipped without stopping the walk: the
\* nodes after it on the first-child path still contribute, in their order.
C23_NoBlank ==
  /\ \A i \in 1..Len(w_st.messages) :
       LET content == w_st.messages[i].content
       IN /\ content # <<>>
          /\ ~IsSpace(content[1])
          /\ ~IsSpace(content[Len(content)])
  /\ w_pc = "done" =>
       LET nodes == ContributingNodes(w_mapping)
       IN [i \in 1..Len(w_st.messages) |-> w_st.messages[i].author]
            = [i \in 1..Len(nodes) |->
                 IF nodes[i].role = "" THEN "unknown" ELSE nodes[i].role]

\* the root carries a message that contributes nothing, its first child
\* carries a text, and the walk has returned the message of the child
C23_Witness ==
  /\ w_pc = "done"
  /\ Len(FirstChildPath(w_mapping)) = 2
  /\ GetNode(w_mapping, FirstChildPath(w_mapping)[1]).hasMsg
  /\ ~Contributes(w_mapping, FirstChildPath(w_mapping)[1])
  /\ Contributes(w_mapping, FirstChildPath(w_mapping)[2])
  /\ Len(w_st.messages) = 1

\* the terminal states of a conversation
Terminal == {"skipped", "recorded", "errored"}

\* what one step may do to the state of a conversation
StepAllowed(from, to) ==
  \/ to = from
  \/ from = "pending" /\ to \in {"skipped", "rendered", "errored"}
  \/ from = "rendered" /\ to \in {"named", "errored"}
  \/ from = "named" /\ to \in {"recorded", "errored"}

\* C24: every conversation that enters the batch loop ends in exactly one of
\* the terminal states Skipped, Recorded or Errored and never leaves it;
\* Recorded is reached only after Rendered and then Named, in that order, a
\* Skipped conversation is never rendered or named, and when the batch
\* returns no conversation is left Pending.
C24_StateMachine ==
  /\ [](Returned => \A k \in 1..Len(outcome) : outcome[k] \in Terminal)
  /\ [][pc # "begin" =>
          /\ Len(outcome') = Len(outcome)
          /\ \A k \in 1..Len(outcome) : StepAllowed(outcome[k], outcome'[k])]_vars

\* a call has returned with a conversation in each of the terminal states
C24_Witness ==
  /\ Returned
  /\ WithOutcome("skipped") # {}
  /\ WithOutcome("recorded") # {}
  /\ WithOutcome("errored") # {}

\* process_conversations is at its for loop, or has returned and main has not
\* touched the result
InCall == pc \in {"loop", "try", "rendered", "named", "returned"}

\* the conversation ids of the file records
FileIds == {Files[k].conversation_id : k \in 1..Len(Files)}

\* C25: during process_conversations the seen-id set only grows: no id is
\* removed, an id is added exactly when its file record is appended to files,
\* never when a conversation is skipped or errors; the set is its initial
\* value united with the conversation ids of files, and processed is the
\* length of files, at return in particular.
C25_SeenSetGrows ==
  /\ [](InCall => /\ processed_ids = seen0 \cup FileIds
                  /\ results.processed = Len(Files))
  /\ [][(InCall /\ pc # "returned") =>
          /\ processed_ids \subseteq processed_ids'
          /\ IF Len(results'.files) = Len(Files) + 1
             THEN /\ results'.files[Len(Files) + 1].conversation_id \notin processed_ids
                  /\ processed_ids' = processed_ids
                       \cup {results'.files[Len(Files) + 1].conversation_id}
             ELSE /\ results'.files = Files
                  /\ processed_ids' = processed_ids]_vars

\* a call that began with a seeded set has returned one file, after a skip
\* and an error
C25_Witness ==
  /\ Returned
  /\ seen0 # {}
  /\ Len(Files) = 1
  /\ WithOutcome("skipped") # {}
  /\ WithOutcome("errored") # {}
  /\ processed_ids # seen0

\* C26: across successive runs of main on one output directory, the write
\* phase never overwrites a file that an earlier run wrote for a different
\* conversation: a file the directory holds for a conversation id is not
\* replaced by a file of the same name for another conversation id.
C26_NoOverwrite ==
  [][\A f \in dir : \A g \in dir' :
       (f.cid # <<>> /\ g.name = f.name) => g.cid = f.cid]_vars

====
